---- MODULE Spec2Model ----
(***************************************************************************)
(* A model of the static site generator: the site configuration            *)
(* (config.rs), the exclusion predicate of the directory walk (utils.rs),  *)
(* the content resolver with its path classification and cross-language    *)
(* URL computation (content.rs), and the build pipeline (generator.rs).    *)
(*                                                                         *)
(* Paths and slugs are TLA+ strings; starts_with / contains / ends_with,   *)
(* file_stem and extension are computed on the characters as the Rust      *)
(* standard library computes them.  Option<T> is a set with at most one    *)
(* element: None is {} and Some(v) is {v}.                                 *)
(***************************************************************************)
EXTENDS Naturals, Sequences, FiniteSets, TLC

VARIABLES
    \* ---- the build pipeline (generator.rs) ----
    pc,             \* the stage SiteGenerator::build is about to run
    source_dir,     \* SiteGenerator.source_dir
    output_dir,     \* SiteGenerator.output_dir
    config,         \* SiteGenerator.config, a SiteConfig
    fs,             \* the source tree: the relative paths of its files
    unreadable,     \* the files of fs whose bytes are not valid UTF-8 text
    content_files,  \* the Vec<ContentFile> returned by collect_content_files
    output,         \* the files written under output_dir: [path, src]
    \* ---- one resolution of one file (content.rs) ----
    step,           \* position of the resolver run: input, resolved, failed,
                    \* urls, output_path, file_path
    in_path,        \* the path handed to ContentFile::from_path
    in_root,        \* the source_root handed to ContentFile::from_path
    in_readable,    \* whether read_to_string succeeds on in_path
    cf,             \* the resolved ContentFile (Option)
    urls,           \* the map returned by get_language_urls (Option)
    output_path,    \* the String returned by get_output_path (Option)
    file_path       \* the PathBuf returned by get_file_path (Option)

vars == <<pc, source_dir, output_dir, config, fs, unreadable, content_files, output,
          step, in_path, in_root, in_readable, cf, urls, output_path, file_path>>

buildVars == <<pc, source_dir, output_dir, fs, unreadable, content_files, output>>
contentVars ==
    <<step, in_path, in_root, in_readable, cf, urls, output_path, file_path>>

-----------------------------------------------------------------------------
(* Option<T> *)

None == {}
Some(v) == {v}
Unwrap(o) == CHOOSE v \in o : TRUE
UnwrapOr(o, d) == IF o = None THEN d ELSE Unwrap(o)

Range(s) == {s[i] : i \in 1..Len(s)}

-----------------------------------------------------------------------------
(* str: starts_with, ends_with, contains, replace *)

CharAt(s, i) == SubSeq(s, i, i)

StartsWith(s, p) == Len(p) <= Len(s) /\ SubSeq(s, 1, Len(p)) = p

EndsWith(s, p) == Len(p) <= Len(s) /\ SubSeq(s, Len(s) - Len(p) + 1, Len(s)) = p

Contains(s, p) ==
    \E i \in 1..(Len(s) + 1) :
        i + Len(p) - 1 <= Len(s) /\ SubSeq(s, i, i + Len(p) - 1) = p

\* exclude.replace("*", "")
RECURSIVE RemoveStars(_)
RemoveStars(s) ==
    IF Len(s) = 0 THEN ""
    ELSE IF CharAt(s, 1) = "*" THEN RemoveStars(Tail(s))
    ELSE CharAt(s, 1) \o RemoveStars(Tail(s))

\* the last position of character ch in s, 0 when there is none
LastIndexOf(s, ch) ==
    LET at == {i \in 1..Len(s) : CharAt(s, i) = ch}
    IN IF at = {} THEN 0 ELSE CHOOSE i \in at : \A j \in at : j <= i

-----------------------------------------------------------------------------
(* std::path::Path *)

\* Path::file_name: the last component
file_name(path) == SubSeq(path, LastIndexOf(path, "/") + 1, Len(path))

\* Path::file_stem: the file name up to its last '.', the whole name when it
\* has no '.' or only a leading one
file_stem(path) ==
    LET name == file_name(path)
        dot == LastIndexOf(name, ".")
    IN IF dot <= 1 THEN name ELSE SubSeq(name, 1, dot - 1)

\* Path::extension: what follows the last '.', None when file_stem is the
\* whole name
extension(path) ==
    LET name == file_name(path)
        dot == LastIndexOf(name, ".")
    IN IF dot <= 1 THEN None ELSE Some(SubSeq(name, dot + 1, Len(name)))

\* Path::join for a relative right-hand side
PathJoin(dir, rel) == dir \o "/" \o rel

\* Path::strip_prefix, component-wise: Some(rest) or None (StripPrefixError)
strip_prefix(path, root) ==
    IF path = root THEN Some("")
    ELSE IF StartsWith(path, root \o "/")
         THEN Some(SubSeq(path, Len(root) + 2, Len(path)))
         ELSE None

-----------------------------------------------------------------------------
(* config.rs *)

\* SiteConfig: the fields the generator reads
SiteConfig(languages, default_lang, collections, exclude) ==
    [languages |-> languages, default_lang |-> default_lang,
     collections |-> collections, exclude |-> exclude]

get_languages(c) == UnwrapOr(c.languages, <<"en">>)

get_default_lang(c) == UnwrapOr(c.default_lang, "en")

is_collection(c, name) ==
    IF c.collections = None THEN FALSE ELSE name \in Unwrap(c.collections)

-----------------------------------------------------------------------------
(* utils.rs *)

is_markdown_file(path) ==
    LET e == extension(path)
    IN e # None /\ (Unwrap(e) = "md" \/ Unwrap(e) = "markdown")

should_exclude(path_str, excludes) ==
    \/ StartsWith(path_str, "_site")
    \/ StartsWith(path_str, ".git")
    \/ StartsWith(path_str, "Gemfile")
    \/ StartsWith(path_str, "_config.yml")
    \/ Contains(path_str, ".lock")
    \/ Contains(path_str, "node_modules")
    \/ Contains(path_str, "vendor")
    \/ StartsWith(path_str, "src/")
    \/ StartsWith(path_str, "target/")
    \/ EndsWith(path_str, "Cargo.toml")
    \/ Contains(path_str, "CLAUDE.md")
    \/ Contains(path_str, "README.md")
    \/ Contains(path_str, "LICENSE")
    \/ Contains(path_str, "TAREFAS_")
    \/ \E i \in 1..Len(excludes) :
          IF Contains(excludes[i], "*")
          THEN Contains(path_str, RemoveStars(excludes[i]))
          ELSE StartsWith(path_str, excludes[i])

-----------------------------------------------------------------------------
(* content.rs *)

\* Result<T>
Ok(v) == [ok |-> TRUE, val |-> v]
Err(e) == [ok |-> FALSE, err |-> e]

\* ContentFile: front matter, body and rendered HTML are carried through
\* unchanged and decide nothing below
ContentFile(path, relative_path, collection, language) ==
    [path |-> path, relative_path |-> relative_path,
     collection |-> collection, language |-> language]

\* the cascade with the base collection marker tested first
extract_collection_and_language_BaseFirst(path_str) ==
    IF StartsWith(path_str, "_lessons") THEN <<Some("lessons"), "en">>
    ELSE IF StartsWith(path_str, "_lessons_pt") THEN <<Some("lessons"), "pt">>
    ELSE IF StartsWith(path_str, "_lessons_es") THEN <<Some("lessons"), "es">>
    ELSE IF StartsWith(path_str, "pt/") THEN <<None, "pt">>
    ELSE IF StartsWith(path_str, "es/") THEN <<None, "es">>
    ELSE <<None, "en">>

extract_collection_and_language(path_str) ==
    IF StartsWith(path_str, "_lessons_pt") THEN <<Some("lessons"), "pt">>
    ELSE IF StartsWith(path_str, "_lessons_es") THEN <<Some("lessons"), "es">>
    ELSE IF StartsWith(path_str, "_lessons") THEN <<Some("lessons"), "en">>
    ELSE IF StartsWith(path_str, "pt/") THEN <<None, "pt">>
    ELSE IF StartsWith(path_str, "es/") THEN <<None, "es">>
    ELSE <<None, "en">>

\* ContentFile::from_path: read_to_string fails on a file that is not UTF-8
\* text; the front-matter parser returns no error (a block it cannot read
\* yields empty front matter); strip_prefix fails outside source_root
from_path(path, source_root, readable) ==
    IF ~readable THEN Err("IoError")
    ELSE LET rel == strip_prefix(path, source_root)
         IN IF rel = None THEN Err("PathError")
            ELSE LET cl == extract_collection_and_language(Unwrap(rel))
                 IN Ok(ContentFile(path, Unwrap(rel), cl[1], cl[2]))

\* get_lesson_translation_map, "Portuguese to English mappings"
PtToEn ==
    ("ola-mundo" :> "hello-world") @@ ("instalacao" :> "installation") @@
    ("variaveis" :> "variables") @@ ("tipos-de-dados" :> "data-types") @@
    ("cargo" :> "cargo")

\* get_lesson_translation_map, "Spanish to English mappings"
EsToEn ==
    ("hola-mundo" :> "hello-world") @@ ("instalacion" :> "installation") @@
    ("variables" :> "variables") @@ ("cargo" :> "cargo")

\* the table with a Spanish slug of data-types added
get_lesson_translation_map_EsDataTypes ==
    ("tipos-de-datos" :> "data-types") @@ EsToEn @@ PtToEn

\* the HashMap after all inserts: a later insert of a key replaces the earlier
get_lesson_translation_map == EsToEn @@ PtToEn

\* the canonical (English) stem of a lesson
en_stem_of(stem, language) ==
    LET lesson_map == get_lesson_translation_map
    IN IF language \in {"pt", "es"}
       THEN IF stem \in DOMAIN lesson_map THEN lesson_map[stem] ELSE stem
       ELSE stem

\* lesson_map.iter().find(|(_, v)| *v == &en_stem).map(|(k, _)| k)
\* .unwrap_or("index"): the first entry in the HashMap's iteration order whose
\* value is en_stem.  The order is unspecified, so every matching key is a
\* possible result; both lookups of one call iterate the same map.
reverse_lookup(en_stem) ==
    LET lesson_map == get_lesson_translation_map
        hits == {k \in DOMAIN lesson_map : lesson_map[k] = en_stem}
    IN IF hits = {} THEN {"index"} ELSE hits

pt_lesson_of(en_stem, found) ==
    CASE en_stem = "hello-world" -> "ola-mundo"
      [] en_stem = "installation" -> "instalacao"
      [] en_stem = "variables" -> "variaveis"
      [] en_stem = "data-types" -> "tipos-de-dados"
      [] en_stem = "cargo" -> "cargo"
      [] OTHER -> found

\* the Spanish slug taken from the reverse lookup alone
es_lesson_of_ReverseOnly(en_stem, found) == found

es_lesson_of(en_stem, found) ==
    CASE en_stem = "hello-world" -> "hola-mundo"
      [] en_stem = "installation" -> "instalacion"
      [] en_stem = "variables" -> "variables"
      [] en_stem = "cargo" -> "cargo"
      [] OTHER -> found

\* get_language_urls without the "index" case of a standalone page
get_language_urls_NoIndexCase(c, found) ==
    LET stem == file_stem(c.path)
    IN IF c.collection # None
       THEN LET collection == Unwrap(c.collection)
                en_stem == en_stem_of(stem, c.language)
                pt_lesson == pt_lesson_of(en_stem, found)
                es_lesson == es_lesson_of(en_stem, found)
            IN [en |-> "/" \o collection \o "/" \o en_stem \o "/",
                pt |-> IF pt_lesson # "index"
                       THEN "/pt/" \o collection \o "/" \o pt_lesson \o "/"
                       ELSE "/pt/",
                es |-> IF es_lesson # "index"
                       THEN "/es/" \o collection \o "/" \o es_lesson \o "/"
                       ELSE "/es/"]
       ELSE [en |-> "/" \o stem \o "/",
             pt |-> "/pt/" \o stem \o "/",
             es |-> "/es/" \o stem \o "/"]

\* ContentFile::get_language_urls; found is the result of the reverse lookup
get_language_urls(c, found) ==
    LET stem == file_stem(c.path)
    IN IF c.collection # None
       THEN LET collection == Unwrap(c.collection)
                en_stem == en_stem_of(stem, c.language)
                pt_lesson == pt_lesson_of(en_stem, found)
                es_lesson == es_lesson_of(en_stem, found)
            IN [en |-> "/" \o collection \o "/" \o en_stem \o "/",
                pt |-> IF pt_lesson # "index"
                       THEN "/pt/" \o collection \o "/" \o pt_lesson \o "/"
                       ELSE "/pt/",
                es |-> IF es_lesson # "index"
                       THEN "/es/" \o collection \o "/" \o es_lesson \o "/"
                       ELSE "/es/"]
       ELSE IF stem = "index"
            THEN [en |-> "/", pt |-> "/pt/", es |-> "/es/"]
            ELSE [en |-> "/" \o stem \o "/",
                  pt |-> "/pt/" \o stem \o "/",
                  es |-> "/es/" \o stem \o "/"]

\* get_output_path with the Spanish arms missing
get_output_path_NoSpanish(c) ==
    LET stem == file_stem(c.path)
    IN IF c.collection # None
       THEN CASE c.language = "pt" -> "/pt/" \o Unwrap(c.collection) \o "/" \o stem \o "/"
              [] OTHER -> "/" \o Unwrap(c.collection) \o "/" \o stem \o "/"
       ELSE CASE c.language = "pt" -> "/pt/" \o stem \o "/"
              [] OTHER -> "/" \o stem \o "/"

\* ContentFile::get_output_path; _base_url is not used
get_output_path(c) ==
    LET stem == file_stem(c.path)
    IN IF c.collection # None
       THEN CASE c.language = "pt" -> "/pt/" \o Unwrap(c.collection) \o "/" \o stem \o "/"
              [] c.language = "es" -> "/es/" \o Unwrap(c.collection) \o "/" \o stem \o "/"
              [] OTHER -> "/" \o Unwrap(c.collection) \o "/" \o stem \o "/"
       ELSE CASE c.language = "pt" -> "/pt/" \o stem \o "/"
              [] c.language = "es" -> "/es/" \o stem \o "/"
              [] OTHER -> "/" \o stem \o "/"

\* get_file_path with the collection directory left out
get_file_path_NoCollection(c) ==
    LET stem == file_stem(c.path)
        dir == CASE c.language = "pt" -> "pt/"
                 [] c.language = "es" -> "es/"
                 [] OTHER -> ""
    IN dir \o stem \o "/index.html"

\* ContentFile::get_file_path
get_file_path(c) ==
    LET stem == file_stem(c.path)
        dir == IF c.collection # None
               THEN CASE c.language = "pt" -> "pt/" \o Unwrap(c.collection) \o "/"
                      [] c.language = "es" -> "es/" \o Unwrap(c.collection) \o "/"
                      [] OTHER -> Unwrap(c.collection) \o "/"
               ELSE CASE c.language = "pt" -> "pt/"
                      [] c.language = "es" -> "es/"
                      [] OTHER -> ""
    IN dir \o stem \o "/index.html"

-----------------------------------------------------------------------------
(* The inputs of the model *)

\* directory levels inserted between the classified directory and the file
MaxDepth == 1

\* files of one source tree
MaxFiles == 2

Languages == {"en", "pt", "es"}

\* values of the languages, default_lang and collections keys of _config.yml
LanguagesChoices ==
    {None, Some(<<>>), Some(<<"en">>), Some(<<"en", "pt", "es">>),
     Some(<<"en", "pt", "es", "fr">>)}
DefaultLangChoices == {None, Some("pt")}
CollectionsChoices == {None, Some({"lessons"}), Some({"posts"})}

\* values of the -s / --source argument ("." is its default)
SourceDirs == {".", "site"}

\* directories at the top of a source tree
TopDirs ==
    {"", "pt/", "es/", "_lessons/", "_lessons_pt/", "_lessons_es/",
     "pt-br/", "docs/"}

RECURSIVE SubDirs(_)
SubDirs(n) == IF n = 0 THEN "" ELSE "sub/" \o SubDirs(n - 1)

Stems ==
    (DOMAIN get_lesson_translation_map) \cup
    {get_lesson_translation_map[k] : k \in DOMAIN get_lesson_translation_map}
    \cup {"index", "about", "intro", "pt", "es"}

Extensions == {".md", ".html"}

RelativePaths ==
    {d \o SubDirs(n) \o st \o e :
        d \in TopDirs, n \in 0..MaxDepth, st \in Stems, e \in Extensions}

-----------------------------------------------------------------------------
(* One resolution: from_path, then get_language_urls as render_content     *)
(* calls it                                                                *)

BuildIdle ==
    /\ pc = "Idle"
    /\ source_dir = "."
    /\ output_dir = "./_site"
    /\ fs = {}
    /\ unreadable = {}
    /\ content_files = {}
    /\ output = {}

ContentInit ==
    /\ BuildIdle
    /\ config \in {SiteConfig(l, d, c, None) :
                     l \in LanguagesChoices, d \in DefaultLangChoices,
                     c \in CollectionsChoices}
    /\ step = "input"
    /\ in_root \in SourceDirs
    /\ \E root \in SourceDirs, rel \in RelativePaths :
           in_path = PathJoin(root, rel)
    /\ in_readable \in BOOLEAN
    /\ cf = None
    /\ urls = None
    /\ output_path = None
    /\ file_path = None

Resolve ==
    /\ step = "input"
    /\ LET r == from_path(in_path, in_root, in_readable)
       IN IF r.ok
          THEN cf' = Some(r.val) /\ step' = "resolved"
          ELSE cf' = None /\ step' = "failed"
    /\ UNCHANGED <<in_path, in_root, in_readable, urls, output_path, file_path, config>>
    /\ UNCHANGED buildVars

LanguageUrls ==
    /\ step = "resolved"
    /\ LET c == Unwrap(cf)
       IN \E found \in reverse_lookup(en_stem_of(file_stem(c.path), c.language)) :
              urls' = Some(get_language_urls(c, found))
    /\ step' = "urls"
    /\ UNCHANGED <<in_path, in_root, in_readable, cf, output_path, file_path, config>>
    /\ UNCHANGED buildVars

\* content.get_output_path(base_url)
OutputPath ==
    /\ step = "urls"
    /\ output_path' = Some(get_output_path(Unwrap(cf)))
    /\ step' = "output_path"
    /\ UNCHANGED <<in_path, in_root, in_readable, cf, urls, file_path, config>>
    /\ UNCHANGED buildVars

\* content.get_file_path(), as render_content_file calls it
FilePath ==
    /\ step = "output_path"
    /\ file_path' = Some(get_file_path(Unwrap(cf)))
    /\ step' = "file_path"
    /\ UNCHANGED <<in_path, in_root, in_readable, cf, urls, output_path, config>>
    /\ UNCHANGED buildVars

ContentNext == Resolve \/ LanguageUrls \/ OutputPath \/ FilePath

SpecContent == ContentInit /\ [][ContentNext]_vars

-----------------------------------------------------------------------------
(* generator.rs: SiteGenerator::build, one action per stage *)

\* values of the -d / --destination argument ("./_site" is its default)
OutputDirs == {"./_site", "out"}

\* values of the exclude key of _config.yml
ExcludeChoices == {None, Some(<<"drafts">>), Some(<<"docs/", "*.bak">>)}

\* files a source tree may hold
TreeFiles ==
    {"index.md", "about.md", "pt.md", "pt/index.md", "lessons/index.md",
     "_lessons/variables.md", "_lessons_pt/variaveis.md", "docs/guide.md",
     "guide.md", "drafts/post.md", "page.bak.html", "_site/index.html",
     ".git/notes.md", "vendor/lib/doc.md", "assets/style.css"}

\* the files under the output directory when it lies inside the source tree
InOutputDir(rel) == StartsWith(PathJoin(source_dir, rel), output_dir \o "/")

\* the directories above rel, and rel itself, as WalkDir visits them
WalkPrefixes(rel) ==
    {SubSeq(rel, 1, i - 1) : i \in {j \in 1..Len(rel) : CharAt(rel, j) = "/"}}
    \cup {rel}

\* WalkDir::new(source_dir).filter_entry(|e| !should_exclude(e.path(), ..)):
\* an entry is yielded when neither it nor a directory above it, the root
\* included, is excluded; e.path() is source_dir joined with the relative path
Walked(rel) ==
    LET excludes == UnwrapOr(config.exclude, <<>>)
    IN /\ ~should_exclude(source_dir, excludes)
       /\ \A p \in WalkPrefixes(rel) :
              ~should_exclude(PathJoin(source_dir, p), excludes)

\* the test of collect_content_files on a walked file
IsContentPath(path) ==
    is_markdown_file(path) \/ extension(path) = Some("html")

\* SiteGenerator::collect_content_files without the walk's own errors: a file
\* whose from_path fails is left out (if let Ok(content) = ...)
collect_content_files ==
    {from_path(PathJoin(source_dir, rel), source_dir, rel \notin unreadable).val :
        rel \in {f \in fs :
                    /\ Walked(f)
                    /\ IsContentPath(PathJoin(source_dir, f))
                    /\ from_path(PathJoin(source_dir, f), source_dir,
                                 f \notin unreadable).ok}}

\* fs::write(output_dir.join(path), ..): a later write replaces an earlier one
Write(out, w) == {o \in out : o.path # w.path} \cup {[path |-> w.path, src |-> w.src]}

RECURSIVE ApplyWrites(_, _)
ApplyWrites(out, ws) ==
    IF ws = <<>> THEN out ELSE ApplyWrites(Write(out, Head(ws)), Tail(ws))

\* a write of a stage: parse tells whether the source goes through from_path
WriteOf(path, src, parse) == [path |-> path, src |-> src, parse |-> parse]

RECURSIVE Concat(_)
Concat(ss) == IF ss = <<>> THEN <<>> ELSE Head(ss) \o Concat(Tail(ss))

Orders(S) ==
    {o \in [1..Cardinality(S) -> S] : \A i, j \in DOMAIN o : o[i] = o[j] => i = j}

\* RunStage with the error of a failed step dropped instead of returned
RunStage_ErrorSwallowed(ws, next) ==
    \E k \in 0..Len(ws) :
        /\ \A i \in 1..k : ws[i].parse => ws[i].src \notin unreadable
        /\ output' = ApplyWrites(output, SubSeq(ws, 1, k))
        /\ pc' = next

\* A stage that performs the writes ws in order, each through `?`: it stops
\* at the first failure.  A write whose source cannot be read as text fails;
\* any step may fail with an I/O or template error.
RunStage(ws, next) ==
    \E k \in 0..Len(ws), ok \in BOOLEAN :
        /\ \A i \in 1..k : ws[i].parse => ws[i].src \notin unreadable
        /\ (k = Len(ws) /\ ok) \/ k < Len(ws) \/ ~ok
        /\ output' = ApplyWrites(output, SubSeq(ws, 1, k))
        /\ pc' = IF k = Len(ws) /\ ok THEN next ELSE "Failed"

\* remove_dir_all(output_dir)?, create_dir_all(output_dir)?: remove_dir_all
\* deletes what is under the directory before the directory itself, so a
\* clean that fails may already have deleted any of those files (all of them
\* when the directory itself cannot be removed or create_dir_all fails)
Clean ==
    /\ pc = "Clean"
    /\ \E ok \in BOOLEAN :
          IF ok
          THEN /\ output' = {}
               /\ fs' = {f \in fs : ~InOutputDir(f)}
               /\ unreadable' = {f \in unreadable : ~InOutputDir(f)}
               /\ pc' = "Resolve"
          ELSE /\ \E gone \in SUBSET output,
                     gone_src \in SUBSET {f \in fs : InOutputDir(f)} :
                      /\ output' = output \ gone
                      /\ fs' = fs \ gone_src
                      /\ unreadable' = unreadable \ gone_src
               /\ pc' = "Failed"
    /\ UNCHANGED <<source_dir, output_dir, config, content_files>>
    /\ UNCHANGED contentVars

\* let content_files = self.collect_content_files()?
CollectContent ==
    /\ pc = "Resolve"
    /\ \E walk_ok \in BOOLEAN :
          IF walk_ok
          THEN content_files' = collect_content_files /\ pc' = "Render"
          ELSE UNCHANGED content_files /\ pc' = "Failed"
    /\ UNCHANGED <<source_dir, output_dir, config, fs, unreadable, output>>
    /\ UNCHANGED contentVars

\* for content in &content_files { self.render_content_file(content).await? }
Render ==
    /\ pc = "Render"
    /\ \E o \in Orders(content_files) :
          RunStage([i \in DOMAIN o |->
                       WriteOf(get_file_path(o[i]), o[i].relative_path, FALSE)],
                   "Index")
    /\ UNCHANGED <<source_dir, output_dir, config, fs, unreadable, content_files>>
    /\ UNCHANGED contentVars

\* generate_language_index then generate_lessons_index for one language
IndexWrites(lang) ==
    LET dir == CASE lang = "pt" -> "pt/" [] lang = "es" -> "es/" [] OTHER -> ""
        one(src, dst) == IF src \in fs THEN <<WriteOf(dst, src, TRUE)>> ELSE <<>>
    IN one(dir \o "index.md", dir \o "index.html")
       \o one(dir \o "lessons/index.md", dir \o "lessons/index.html")

\* SiteGenerator::generate_index_pages
GenerateIndexPages ==
    /\ pc = "Index"
    /\ LET langs == get_languages(config)
       IN RunStage(Concat([i \in DOMAIN langs |-> IndexWrites(langs[i])]),
                   "CopyAssets")
    /\ UNCHANGED <<source_dir, output_dir, config, fs, unreadable, content_files>>
    /\ UNCHANGED contentVars

SpecialFileNames ==
    <<"manifest.json", "sw.js", "robots.txt", "sitemap.xml", "offline.html",
      ".nojekyll">>

\* the about page of one language
AboutWrites(lang) ==
    LET dir == CASE lang = "pt" -> "pt/" [] lang = "es" -> "es/" [] OTHER -> ""
    IN IF (dir \o "about.md") \in fs
       THEN <<WriteOf(dir \o "about/index.html", dir \o "about.md", TRUE)>>
       ELSE <<>>

\* SiteGenerator::copy_static_assets
CopyStaticAssets ==
    /\ pc = "CopyAssets"
    /\ LET langs == get_languages(config)
           assets == {f \in fs : StartsWith(f, "assets/")}
       IN \E o \in Orders(assets) :
              RunStage([i \in DOMAIN o |-> WriteOf(o[i], o[i], FALSE)]
                       \o Concat([i \in DOMAIN SpecialFileNames |->
                                    IF SpecialFileNames[i] \in fs
                                    THEN <<WriteOf(SpecialFileNames[i],
                                                   SpecialFileNames[i], FALSE)>>
                                    ELSE <<>>])
                       \o Concat([i \in DOMAIN langs |-> AboutWrites(langs[i])]),
                       "SpecialFiles")
    /\ UNCHANGED <<source_dir, output_dir, config, fs, unreadable, content_files>>
    /\ UNCHANGED contentVars

\* SiteGenerator::create_special_files, with generate_feed
CreateSpecialFiles ==
    /\ pc = "SpecialFiles"
    /\ RunStage(<<WriteOf(".nojekyll", "(generated)", FALSE),
                  WriteOf("feed.xml", "(generated)", FALSE)>>, "Done")
    /\ UNCHANGED <<source_dir, output_dir, config, fs, unreadable, content_files>>
    /\ UNCHANGED contentVars

Init ==
    /\ pc = "Clean"
    /\ source_dir \in SourceDirs
    /\ output_dir \in OutputDirs
    /\ config \in {SiteConfig(l, None, None, x) :
                     l \in {None, Some(<<"en", "pt", "es">>)}, x \in ExcludeChoices}
    /\ fs \in {t \in SUBSET TreeFiles : Cardinality(t) <= MaxFiles}
    /\ unreadable \in SUBSET fs
    /\ content_files = {}
    /\ output = {[path |-> "old/index.html", src |-> "(previous build)"]}
    /\ step = "idle"
    /\ in_path = ""
    /\ in_root = ""
    /\ in_readable = FALSE
    /\ cf = None
    /\ urls = None
    /\ output_path = None
    /\ file_path = None

Next ==
    \/ Clean
    \/ CollectContent
    \/ Render
    \/ GenerateIndexPages
    \/ CopyStaticAssets
    \/ CreateSpecialFiles

Spec == Init /\ [][Next]_vars

-----------------------------------------------------------------------------
(* Properties of the build, checked under Spec *)

StageOrder ==
    <<"Clean", "Resolve", "Render", "Index", "CopyAssets", "SpecialFiles", "Done">>

StageAfter(s) ==
    StageOrder[(CHOOSE i \in 1..(Len(StageOrder) - 1) : StageOrder[i] = s) + 1]

OutputPaths(out) == {o.path : o \in out}

\* C1: the build moves only from a stage to the stage after it in the order
\* Clean, Resolve, Render, Index, CopyAssets, SpecialFiles, Done, or to
\* Failed; it moves on only when the stage has finished its work (the output
\* directory emptied, every collected file rendered, the special files
\* written); Failed and Done are final, so no stage runs after a failure.
C1_StagesInOrder ==
    [][pc' # pc =>
          /\ pc \notin {"Done", "Failed"}
          /\ pc' \in {StageAfter(pc), "Failed"}
          /\ (pc = "Clean" /\ pc' = "Resolve") => output' = {}
          /\ (pc = "Render" /\ pc' = "Index") =>
                 \A c \in content_files : get_file_path(c) \in OutputPaths(output')
          /\ (pc = "SpecialFiles" /\ pc' = "Done") =>
                 {".nojekyll", "feed.xml"} \subseteq OutputPaths(output')]_vars

C1_Witness ==
    /\ pc = "Done"
    /\ content_files # {}
    /\ \A c \in content_files : get_file_path(c) \in OutputPaths(output)
    /\ "feed.xml" \in OutputPaths(output)

\* C2: a build that completes has resolved every content file the walk
\* enumerated: none was left out because its resolution failed.
C2_ResolveFailureAborts ==
    pc = "Done" =>
        \A f \in fs :
            (Walked(f) /\ IsContentPath(PathJoin(source_dir, f))) =>
                \E c \in content_files : c.relative_path = f

HardExcludedDirs == {".git/", "_site/", "node_modules/", "vendor/"}

\* the configured exclude entries that name a directory or file, as directories
ConfiguredExcludedDirs ==
    LET excludes == UnwrapOr(config.exclude, <<>>)
    IN {IF EndsWith(e, "/") THEN e ELSE e \o "/" :
           e \in {x \in Range(excludes) : ~Contains(x, "*")}}

\* C3: no collected file lies under an excluded directory of the content
\* root: .git, _site, node_modules, vendor, or a configured exclude entry.
C3_ExcludedNeverCollected ==
    \A c \in content_files :
        \A d \in HardExcludedDirs \cup ConfiguredExcludedDirs :
            ~StartsWith(c.relative_path, d)

-----------------------------------------------------------------------------
(* Properties of the content resolver, checked under SpecContent *)

\* the classification policy as an ordered list of (prefix, outcome) rules
ClassificationRules ==
    << <<"_lessons_pt", Some("lessons"), "pt">>,
       <<"_lessons_es", Some("lessons"), "es">>,
       <<"_lessons", Some("lessons"), "en">>,
       <<"pt/", None, "pt">>,
       <<"es/", None, "es">> >>

RECURSIVE FirstMatch(_, _)
FirstMatch(path_str, i) ==
    IF i > Len(ClassificationRules) THEN <<None, "en">>
    ELSE IF StartsWith(path_str, ClassificationRules[i][1])
         THEN <<ClassificationRules[i][2], ClassificationRules[i][3]>>
         ELSE FirstMatch(path_str, i + 1)

\* C4: the collection and language of a resolved file are those of the first
\* rule, in the order _lessons_pt, _lessons_es, _lessons, pt/, es/, whose
\* prefix its relative path starts with, and (None, en) when there is none;
\* a path under _lessons_pt/ is always (lessons, pt).
C4_PrefixCascade ==
    cf # None =>
        LET c == Unwrap(cf)
        IN /\ <<c.collection, c.language>> = FirstMatch(c.relative_path, 1)
           /\ StartsWith(c.relative_path, "_lessons_pt/") =>
                  c.collection = Some("lessons") /\ c.language = "pt"

C4_Witness ==
    /\ cf # None
    /\ StartsWith(Unwrap(cf).relative_path, "_lessons_pt/")
    /\ Unwrap(cf).collection = Some("lessons")
    /\ Unwrap(cf).language = "pt"

\* C5: the language of a resolved file is one of the configured language
\* codes (get_languages).
C5_LanguageIsConfigured ==
    cf # None => Unwrap(cf).language \in Range(get_languages(config))

\* C6: the collection of a resolved file, when it has one, is a key of the
\* configured collections mapping (is_collection).
C6_CollectionIsConfigured ==
    (cf # None /\ Unwrap(cf).collection # None) =>
        is_collection(config, Unwrap(Unwrap(cf).collection))

\* the slugs the translation table gives language lang for canonical slug c
KnownLocalized(lang, c) ==
    LET t == IF lang = "pt" THEN PtToEn ELSE EsToEn
    IN {k \in DOMAIN t : t[k] = c}

\* the canonical slug of a lesson: its own stem for an English file, else the
\* translation table's image of its stem (the stem itself when it has none)
CanonicalSlug(c) ==
    LET stem == file_stem(c.path)
    IN IF c.language = "en" THEN stem
       ELSE IF stem \in DOMAIN get_lesson_translation_map
            THEN get_lesson_translation_map[stem]
            ELSE stem

TranslationKnown(c) ==
    /\ c.collection # None
    /\ c.language = "en" \/ file_stem(c.path) \in DOMAIN get_lesson_translation_map

\* C7: for a lesson whose translation is known, with canonical slug c, the en
\* URL is /{collection}/{c}/ and, for each of pt and es that has a localized
\* slug of c in the translation table, the URL is
\* /{lang}/{collection}/{that language's slug}/.
C7_KnownTranslationUrls ==
    (urls # None /\ TranslationKnown(Unwrap(cf))) =>
        LET c == Unwrap(cf)
            u == Unwrap(urls)
            coll == Unwrap(c.collection)
            canon == CanonicalSlug(c)
        IN /\ u["en"] = "/" \o coll \o "/" \o canon \o "/"
           /\ \A lang \in {"pt", "es"} :
                  KnownLocalized(lang, canon) # {} =>
                      u[lang] \in {"/" \o lang \o "/" \o coll \o "/" \o k \o "/" :
                                      k \in KnownLocalized(lang, canon)}

C7_Witness ==
    /\ urls # None
    /\ Unwrap(cf).relative_path = "_lessons_pt/variaveis.md"
    /\ Unwrap(urls)["en"] = "/lessons/variables/"
    /\ Unwrap(urls)["es"] = "/es/lessons/variables/"

\* C8: for a collection file and a language of pt, es for which the
\* translation table has no localized slug of the canonical slug, the URL is
\* that language's collection index /{lang}/{collection}/.
C8_FallbackToCollectionIndex ==
    (urls # None /\ Unwrap(cf).collection # None) =>
        LET c == Unwrap(cf)
            u == Unwrap(urls)
        IN \A lang \in {"pt", "es"} :
               KnownLocalized(lang, CanonicalSlug(c)) = {} =>
                   u[lang] = "/" \o lang \o "/" \o Unwrap(c.collection) \o "/"

\* C9: the map returned by get_language_urls has an entry for every
\* configured language code.
C9_EntryForEveryConfiguredLanguage ==
    urls # None =>
        \A lang \in Range(get_languages(config)) : lang \in DOMAIN Unwrap(urls)

\* C10: every URL of the map is non-empty and inside its language's subtree:
\* under /pt/ for pt, under /es/ for es, and for en under / but neither
\* under /pt/ nor under /es/.
C10_UrlInsideLanguageSubtree ==
    urls # None =>
        LET u == Unwrap(urls)
        IN /\ \A lang \in Languages : Len(u[lang]) > 0
           /\ StartsWith(u["pt"], "/pt/")
           /\ StartsWith(u["es"], "/es/")
           /\ StartsWith(u["en"], "/")
           /\ ~StartsWith(u["en"], "/pt/")
           /\ ~StartsWith(u["en"], "/es/")

\* the stem of a source path: its file name without the extension
StemOf(path) == file_stem(file_name(path))

\* the language segment of a URL: omitted for en
LangPrefix(lang) == IF lang = "en" THEN "" ELSE "/" \o lang

\* C11: get_output_path is /{lang-prefix}/{collection}/{stem}/ for a file
\* with a collection and /{lang-prefix}/{stem}/ for one without, the
\* lang-prefix segment omitted for en and pt or es otherwise.
C11_OutputPathShape ==
    output_path # None =>
        LET c == Unwrap(cf)
        IN Unwrap(output_path) =
               LangPrefix(c.language)
               \o (IF c.collection # None THEN "/" \o Unwrap(c.collection) ELSE "")
               \o "/" \o StemOf(in_path) \o "/"

C11_Witness ==
    /\ output_path = Some("/about/")
    /\ Unwrap(cf).relative_path = "about.md"
    /\ Unwrap(cf).collection = None

\* C12: the output path of index.md at the content root is the site root /.
C12_RootIndexIsSiteRoot ==
    (output_path # None /\ Unwrap(cf).relative_path = "index.md") =>
        Unwrap(output_path) = "/"

\* C13: get_file_path is get_output_path without its leading slash, followed
\* by index.html.
C13_FilePathMirrorsOutputPath ==
    file_path # None =>
        Unwrap(file_path) =
            SubSeq(Unwrap(output_path), 2, Len(Unwrap(output_path))) \o "index.html"

C13_Witness ==
    /\ file_path = Some("pt/lessons/variaveis/index.html")
    /\ output_path = Some("/pt/lessons/variaveis/")

\* C14: for a file with no collection the URLs are positional: /{s}/,
\* /pt/{s}/, /es/{s}/ for a stem s other than index, and /, /pt/, /es/ for
\* the stem index, whatever the file's own language.
C14_StandaloneUrlsPositional ==
    (urls # None /\ Unwrap(cf).collection = None) =>
        LET st == StemOf(in_path)
            u == Unwrap(urls)
        IN \A lang \in Languages :
               u[lang] = LangPrefix(lang) \o "/"
                         \o (IF st = "index" THEN "" ELSE st \o "/")

C14_Witness ==
    /\ urls = Some([en |-> "/", pt |-> "/pt/", es |-> "/es/"])
    /\ Unwrap(cf).relative_path = "pt/index.md"
    /\ Unwrap(cf).language = "pt"

\* C15: the language list of a loaded configuration is never empty, is
\* exactly [en] when the languages key is missing, and the default language
\* is en when default_lang is missing.
C15_LanguagesNonEmpty ==
    /\ Len(get_languages(config)) > 0
    /\ config.languages = None => get_languages(config) = <<"en">>
    /\ config.default_lang = None => get_default_lang(config) = "en"

\* C16: two distinct files of the collected content set never have the same
\* get_file_path.
C16_FilePathsDistinct ==
    \A c1, c2 \in content_files :
        c1 # c2 => get_file_path(c1) # get_file_path(c2)

\* C17: the URL that get_language_urls gives for the file's own language is
\* the file's own get_output_path.
C17_OwnLanguageUrlIsOutputPath ==
    output_path # None =>
        Unwrap(urls)[Unwrap(cf).language] = Unwrap(output_path)

\* C18: the map returned by get_language_urls does not depend on the
\* iteration order of the translation table: every entry the reverse lookup
\* may find first gives the map that was returned.
C18_UrlsIndependentOfIterationOrder ==
    urls # None =>
        LET c == Unwrap(cf)
        IN \A found \in reverse_lookup(en_stem_of(file_stem(c.path), c.language)) :
               get_language_urls(c, found) = Unwrap(urls)

C18_Witness ==
    /\ urls # None
    /\ Unwrap(cf).relative_path = "_lessons/data-types.md"
    /\ reverse_lookup("data-types") = {"tipos-de-dados"}
    /\ Unwrap(urls)["es"] = "/es/lessons/tipos-de-dados/"

====
